---------------------------- MODULE Spec2Model ----------------------------
(***************************************************************************)
(* The relational schema of uririconnect/models.py as a state machine.     *)
(*                                                                         *)
(* The state is the content of the ten tables the module declares, the     *)
(* AutoField sequences, and the clock read by the auto_now / auto_now_add  *)
(* columns.  One action per statement: an insert, an update and a delete   *)
(* of a row of each table.  An insert or update is the validated write of  *)
(* an instance (Model.full_clean, then Model.save): a statement that       *)
(* violates a declared constraint (ForeignKey target, unique=True,         *)
(* choices, max_digits / decimal_places) is rejected, the action is not    *)
(* enabled and nothing is written.  A delete follows every                 *)
(* on_delete=CASCADE relation.                                             *)
(*                                                                         *)
(* The clock is strictly monotone: every reading is later than the one     *)
(* before it.                                                              *)
(*                                                                         *)
(* Columns that no constraint or relation reads (free text, dates,         *)
(* is_read, user_password) take part in no transition and are carried      *)
(* only by the instances whose __str__ is computed.                        *)
(***************************************************************************)
EXTENDS Integers, Sequences, FiniteSets, TLC

VARIABLES db,       \* the ten tables: table name -> (primary key -> row)
          seq,      \* AutoField: the last primary key handed out, per table
          clock,    \* the last reading of the clock stored by a statement
          last,     \* the last statement that was accepted
          obj,      \* a model instance whose __str__ is asked for
          label     \* the result of __str__

vars == <<db, seq, clock, last, obj, label>>

Role == db["Role"]
User == db["User"]
Event == db["Event"]
EventRegistration == db["EventRegistration"]
Resource == db["Resource"]
Class == db["Class"]
Message == db["Message"]
SecurityIncident == db["SecurityIncident"]
Assignment == db["Assignment"]
Grade == db["Grade"]

\* ------------------------------------------------------------------ bounds
\* Primary keys handed out: of the User table, and of every other table.
MaxUsers == 2
MaxRows == 1
\* Clock readings: an insert takes two (created_at, updated_at), an update one.
MaxClock == 11
\* Digits written before and after the decimal point of a submitted score.
MaxIntDigits == 4
MaxFracDigits == 3

UserIds == 1..MaxUsers
Ids == 1..MaxRows
TableNames == {"Role", "User", "Event", "EventRegistration", "Resource", "Class",
               "Message", "SecurityIncident", "Assignment", "Grade"}

\* Python's None.
None == "<None>"
\* A column that holds NULL, a row that is not there.
Null == [null |-> TRUE]
\* The accepted statement: what it did to which row, the column values an
\* update replaced (updated_at, which every update replaces, left out), and
\* the rows a delete removed, per table.
NoStatement == [op |-> "none", table |-> "", id |-> 0, old |-> Null, deleted |-> Null]
Replaced(row) == [f \in DOMAIN row \ {"updated_at"} |-> row[f]]

\* --------------------------------------------------------- column behaviour
\* The k-th reading of timezone.now() made by the statement being executed.
Now(k) == clock + k
CanRead(k) == clock + k <= MaxClock

\* A column that is refreshed on insert only.
AutoNowOnInsertOnly(add, current, t) == IF add THEN t ELSE current
\* DateTimeField(auto_now=True).pre_save: the current time on every save.
AutoNow(add, current, t) == t

\* A column that is refreshed on every save.
AutoNowAddOnEverySave(add, current, t) == t
\* DateTimeField(auto_now_add=True).pre_save: the current time when the row
\* is added, the instance's value afterwards.
AutoNowAdd(add, current, t) == IF add THEN t ELSE current

\* AutoField: the next primary key of table t.
NextId(t) == seq[t] + 1
CanInsert(t) == NextId(t) <= (IF t = "User" THEN MaxUsers ELSE MaxRows)

\* A relation that is not checked.
FKUnchecked(parent, id) == TRUE
\* ForeignKey: the referenced row exists.
FKExists(parent, id) == id \in DOMAIN parent

\* Only the e-mail address is checked.
UserUniqueEmailOnly(self, email, phone) ==
    \A u \in DOMAIN User \ {self} : User[u].email_address # email
\* unique=True on User.email_address and User.phone_number: no other row
\* (self is the row being written, 0 on insert) holds the value.
UserUnique(self, email, phone) ==
    \A u \in DOMAIN User \ {self} :
        /\ User[u].email_address # email
        /\ User[u].phone_number # phone

\* choices of SecurityIncident.report_status.
ReportStatusChoices == {"Reported", "Under Investigation", "Resolved"}
\* The place of a value in Reported, Under Investigation, Resolved.
StatusRank(s) == CASE s = "Reported" -> 1
                   [] s = "Under Investigation" -> 2
                   [] s = "Resolved" -> 3
                   [] OTHER -> 0
\* Any value is stored.
ReportStatusUnchecked(current, value) == TRUE
\* Only a step forward in Reported, Under Investigation, Resolved is stored.
ReportStatusForwardOnly(current, value) ==
    /\ value \in ReportStatusChoices
    /\ StatusRank(current) <= StatusRank(value)
\* The value is one of the choices; the stored value (current, None on
\* insert) is not consulted.
ReportStatusValid(current, value) == value \in ReportStatusChoices

\* ----------------------------------------------------- Grade.score
\* A score as it is submitted: the digits written before and after the point.
\* Decimal(str): the coefficient without its leading zeros, and the exponent.
RECURSIVE StripZeros(_)
StripZeros(ds) == IF ds = <<>> THEN <<0>>
                  ELSE IF Head(ds) = 0 /\ Len(ds) > 1 THEN StripZeros(Tail(ds))
                  ELSE ds
ToDecimal(n) == [digits |-> StripZeros(n.int \o n.frac), exponent |-> -Len(n.frac)]

Abs(x) == IF x < 0 THEN -x ELSE x
\* The digits a Decimal counts for, and those of them after the point.
NumDigits(d) == IF d.exponent >= 0
                THEN Len(d.digits) + (IF d.digits = <<0>> THEN 0 ELSE d.exponent)
                ELSE IF Abs(d.exponent) > Len(d.digits) THEN Abs(d.exponent)
                ELSE Len(d.digits)
NumDecimals(d) == IF d.exponent >= 0 THEN 0 ELSE Abs(d.exponent)

\* Only the total number of digits is checked.
DecimalTotalOnly(d, max_digits, decimal_places) == NumDigits(d) <= max_digits
\* DecimalField(max_digits, decimal_places): the total digits, the digits
\* after the point, and the digits before it.
DecimalValid(d, max_digits, decimal_places) ==
    /\ NumDigits(d) <= max_digits
    /\ NumDecimals(d) <= decimal_places
    /\ NumDigits(d) - NumDecimals(d) <= max_digits - decimal_places

\* Grade.score: null=True, max_digits=5, decimal_places=2.
ScoreValid(score) == IF score = Null THEN TRUE ELSE DecimalValid(ToDecimal(score), 5, 2)
ScoreStored(score) == IF score = Null THEN Null ELSE ToDecimal(score)

\* ------------------------------------------------------------- Model.save
\* A new instance before its first save.
Blank == [created_at |-> 0, updated_at |-> 0, sent_at |-> 0, time_reported |-> 0]

\* created_at and updated_at of every model; first is the clock reading that
\* created_at takes on insert (the columns are read in declaration order, and
\* only auto_now columns read the clock on update).
Timestamps(add, current, first) ==
    [created_at |-> AutoNowAdd(add, current.created_at, Now(IF add THEN first ELSE 1)),
     updated_at |-> AutoNow(add, current.updated_at, Now(IF add THEN first + 1 ELSE 1))]

\* The row is written: added under the next primary key, or replaced.
Save(t, id, add, row, reads) ==
    /\ IF add THEN CanInsert(t) /\ id = NextId(t) ELSE id \in DOMAIN db[t]
    /\ CanRead(reads)
    /\ db' = [db EXCEPT ![t] = [i \in DOMAIN db[t] \cup {id} |->
                                    IF i = id THEN row ELSE db[t][i]]]
    /\ seq' = IF add THEN [seq EXCEPT ![t] = id] ELSE seq
    /\ clock' = clock + reads
    /\ last' = [op |-> IF add THEN "insert" ELSE "update", table |-> t, id |-> id,
                old |-> IF add THEN Null ELSE Replaced(db[t][id]), deleted |-> Null]
    /\ UNCHANGED <<obj, label>>

\* The instance being saved: a new one, or the stored row.
Current(t, id, add) == IF add THEN Blank ELSE db[t][id]
\* Clock readings of a save: one per auto column on insert, one on update.
Reads(add, onInsert) == IF add THEN onInsert ELSE 1
\* An update addresses a stored row.
Exists(t, id, add) == add \/ id \in DOMAIN db[t]

SaveRole(id, add) ==
    /\ Exists("Role", id, add)
    /\ Save("Role", id, add, Timestamps(add, Current("Role", id, add), 1), Reads(add, 2))

SaveUser(id, add, role_id, email_address, phone_number) ==
    /\ Exists("User", id, add)
    /\ FKExists(Role, role_id)
    /\ UserUnique(IF add THEN 0 ELSE id, email_address, phone_number)
    /\ Save("User", id, add,
            [role_id |-> role_id, email_address |-> email_address,
             phone_number |-> phone_number]
            @@ Timestamps(add, Current("User", id, add), 1), Reads(add, 2))

SaveEvent(id, add, organizer_id) ==
    /\ Exists("Event", id, add)
    /\ FKExists(User, organizer_id)
    /\ Save("Event", id, add,
            [organizer_id |-> organizer_id]
            @@ Timestamps(add, Current("Event", id, add), 1), Reads(add, 2))

SaveEventRegistration(id, add, event_id, user_id) ==
    /\ Exists("EventRegistration", id, add)
    /\ FKExists(Event, event_id)
    /\ FKExists(User, user_id)
    /\ Save("EventRegistration", id, add,
            [event_id |-> event_id, user_id |-> user_id]
            @@ Timestamps(add, Current("EventRegistration", id, add), 1), Reads(add, 2))

SaveResource(id, add, uploaded_by) ==
    /\ Exists("Resource", id, add)
    /\ FKExists(User, uploaded_by)
    /\ Save("Resource", id, add,
            [uploaded_by |-> uploaded_by]
            @@ Timestamps(add, Current("Resource", id, add), 1), Reads(add, 2))

SaveClass(id, add, teacher_id) ==
    /\ Exists("Class", id, add)
    /\ FKExists(User, teacher_id)
    /\ Save("Class", id, add,
            [teacher_id |-> teacher_id]
            @@ Timestamps(add, Current("Class", id, add), 1), Reads(add, 2))

SaveMessage(id, add, sender_id, receiver_id) ==
    /\ Exists("Message", id, add)
    /\ FKExists(User, sender_id)
    /\ FKExists(User, receiver_id)
    /\ Save("Message", id, add,
            [sender_id |-> sender_id, receiver_id |-> receiver_id,
             sent_at |-> AutoNowAdd(add, Current("Message", id, add).sent_at, Now(1))]
            @@ Timestamps(add, Current("Message", id, add), 2), Reads(add, 3))

SaveSecurityIncident(id, add, reporter_id, report_status) ==
    /\ Exists("SecurityIncident", id, add)
    /\ FKExists(User, reporter_id)
    /\ ReportStatusValid(IF add THEN None ELSE SecurityIncident[id].report_status,
                         report_status)
    /\ Save("SecurityIncident", id, add,
            [reporter_id |-> reporter_id, report_status |-> report_status,
             time_reported |-> AutoNowAdd(add,
                 Current("SecurityIncident", id, add).time_reported, Now(1))]
            @@ Timestamps(add, Current("SecurityIncident", id, add), 2), Reads(add, 3))

SaveAssignment(id, add, teacher_id, class_id) ==
    /\ Exists("Assignment", id, add)
    /\ FKExists(User, teacher_id)
    /\ FKExists(Class, class_id)
    /\ Save("Assignment", id, add,
            [teacher_id |-> teacher_id, class_id |-> class_id]
            @@ Timestamps(add, Current("Assignment", id, add), 1), Reads(add, 2))

SaveGrade(id, add, assignment_id, student_id, score) ==
    /\ Exists("Grade", id, add)
    /\ FKExists(Assignment, assignment_id)
    /\ FKExists(User, student_id)
    /\ ScoreValid(score)
    /\ Save("Grade", id, add,
            [assignment_id |-> assignment_id, student_id |-> student_id,
             score |-> ScoreStored(score)]
            @@ Timestamps(add, Current("Grade", id, add), 1), Reads(add, 2))

\* ------------------------------------------------- inserts and updates
InsertRole == SaveRole(NextId("Role"), TRUE)
UpdateRole(id) == SaveRole(id, FALSE)

InsertUser(role_id, email_address, phone_number) ==
    SaveUser(NextId("User"), TRUE, role_id, email_address, phone_number)
UpdateUser(id, role_id, email_address, phone_number) ==
    SaveUser(id, FALSE, role_id, email_address, phone_number)

InsertEvent(organizer_id) == SaveEvent(NextId("Event"), TRUE, organizer_id)
UpdateEvent(id, organizer_id) == SaveEvent(id, FALSE, organizer_id)

InsertEventRegistration(event_id, user_id) ==
    SaveEventRegistration(NextId("EventRegistration"), TRUE, event_id, user_id)
UpdateEventRegistration(id, event_id, user_id) ==
    SaveEventRegistration(id, FALSE, event_id, user_id)

InsertResource(uploaded_by) == SaveResource(NextId("Resource"), TRUE, uploaded_by)
UpdateResource(id, uploaded_by) == SaveResource(id, FALSE, uploaded_by)

InsertClass(teacher_id) == SaveClass(NextId("Class"), TRUE, teacher_id)
UpdateClass(id, teacher_id) == SaveClass(id, FALSE, teacher_id)

InsertMessage(sender_id, receiver_id) ==
    SaveMessage(NextId("Message"), TRUE, sender_id, receiver_id)
UpdateMessage(id, sender_id, receiver_id) ==
    SaveMessage(id, FALSE, sender_id, receiver_id)

InsertSecurityIncident(reporter_id, report_status) ==
    SaveSecurityIncident(NextId("SecurityIncident"), TRUE, reporter_id, report_status)
UpdateSecurityIncident(id, reporter_id, report_status) ==
    SaveSecurityIncident(id, FALSE, reporter_id, report_status)

InsertAssignment(teacher_id, class_id) ==
    SaveAssignment(NextId("Assignment"), TRUE, teacher_id, class_id)
UpdateAssignment(id, teacher_id, class_id) ==
    SaveAssignment(id, FALSE, teacher_id, class_id)

InsertGrade(assignment_id, student_id, score) ==
    SaveGrade(NextId("Grade"), TRUE, assignment_id, student_id, score)
UpdateGrade(id, assignment_id, student_id, score) ==
    SaveGrade(id, FALSE, assignment_id, student_id, score)

\* ------------------------------------------------------------ Model.delete
\* on_delete=CASCADE, one operator per ForeignKey: the rows of the child
\* table that reference one of the parent rows being deleted.
UserOfRole(roles) == {i \in DOMAIN User : User[i].role_id \in roles}
EventOfOrganizer(users) == {i \in DOMAIN Event : Event[i].organizer_id \in users}
EventRegistrationOfEvent(events) ==
    {i \in DOMAIN EventRegistration : EventRegistration[i].event_id \in events}
EventRegistrationOfUser(users) ==
    {i \in DOMAIN EventRegistration : EventRegistration[i].user_id \in users}
ResourceOfUploader(users) == {i \in DOMAIN Resource : Resource[i].uploaded_by \in users}
ClassOfTeacher(users) == {i \in DOMAIN Class : Class[i].teacher_id \in users}
MessageOfSender(users) == {i \in DOMAIN Message : Message[i].sender_id \in users}
MessageOfReceiver(users) == {i \in DOMAIN Message : Message[i].receiver_id \in users}
SecurityIncidentOfReporter(users) ==
    {i \in DOMAIN SecurityIncident : SecurityIncident[i].reporter_id \in users}
AssignmentOfTeacher(users) == {i \in DOMAIN Assignment : Assignment[i].teacher_id \in users}
AssignmentOfClass(classes) == {i \in DOMAIN Assignment : Assignment[i].class_id \in classes}
GradeOfAssignment(assignments) ==
    {i \in DOMAIN Grade : Grade[i].assignment_id \in assignments}
GradeOfStudent(users) == {i \in DOMAIN Grade : Grade[i].student_id \in users}

\* The rows a delete collects, per table, from the rows target[x] of each
\* table x it is asked to delete: every CASCADE relation is followed, parents
\* before children.
CollectFrom(target) ==
    LET roles == target["Role"]
        users == target["User"] \cup UserOfRole(roles)
        events == target["Event"] \cup EventOfOrganizer(users)
        classes == target["Class"] \cup ClassOfTeacher(users)
        assignments == target["Assignment"] \cup AssignmentOfTeacher(users)
                           \cup AssignmentOfClass(classes)
    IN  [Role |-> roles,
         User |-> users,
         Event |-> events,
         EventRegistration |-> target["EventRegistration"]
             \cup EventRegistrationOfEvent(events) \cup EventRegistrationOfUser(users),
         Resource |-> target["Resource"] \cup ResourceOfUploader(users),
         Class |-> classes,
         Message |-> target["Message"] \cup MessageOfSender(users)
             \cup MessageOfReceiver(users),
         SecurityIncident |-> target["SecurityIncident"]
             \cup SecurityIncidentOfReporter(users),
         Assignment |-> assignments,
         Grade |-> target["Grade"] \cup GradeOfAssignment(assignments)
             \cup GradeOfStudent(users)]

\* Only the rows that reference the deleted row itself are collected.
CollectDirect(t, id) ==
    LET Target(x) == IF x = t THEN {id} ELSE {}
    IN  [Role |-> Target("Role"),
         User |-> Target("User") \cup UserOfRole(Target("Role")),
         Event |-> Target("Event") \cup EventOfOrganizer(Target("User")),
         EventRegistration |-> Target("EventRegistration")
             \cup EventRegistrationOfEvent(Target("Event"))
             \cup EventRegistrationOfUser(Target("User")),
         Resource |-> Target("Resource") \cup ResourceOfUploader(Target("User")),
         Class |-> Target("Class") \cup ClassOfTeacher(Target("User")),
         Message |-> Target("Message") \cup MessageOfSender(Target("User"))
             \cup MessageOfReceiver(Target("User")),
         SecurityIncident |-> Target("SecurityIncident")
             \cup SecurityIncidentOfReporter(Target("User")),
         Assignment |-> Target("Assignment") \cup AssignmentOfTeacher(Target("User"))
             \cup AssignmentOfClass(Target("Class")),
         Grade |-> Target("Grade") \cup GradeOfAssignment(Target("Assignment"))
             \cup GradeOfStudent(Target("User"))]
\* The delete is not restricted to the row: the whole table is collected.
CollectWholeTable(t, id) ==
    CollectFrom([x \in TableNames |-> IF x = t THEN DOMAIN db[t] ELSE {}])
\* Model.delete: the row, and every row the cascade reaches from it.
Collect(t, id) == CollectFrom([x \in TableNames |-> IF x = t THEN {id} ELSE {}])

Delete(t, id) ==
    /\ id \in DOMAIN db[t]
    /\ LET gone == Collect(t, id)
       IN  db' = [x \in TableNames |-> [i \in DOMAIN db[x] \ gone[x] |-> db[x][i]]]
    /\ last' = [op |-> "delete", table |-> t, id |-> id, old |-> Null,
                deleted |-> Collect(t, id)]
    /\ UNCHANGED <<seq, clock, obj, label>>

DeleteRole(id) == Delete("Role", id)
DeleteUser(id) == Delete("User", id)
DeleteEvent(id) == Delete("Event", id)
DeleteEventRegistration(id) == Delete("EventRegistration", id)
DeleteResource(id) == Delete("Resource", id)
DeleteClass(id) == Delete("Class", id)
DeleteMessage(id) == Delete("Message", id)
DeleteSecurityIncident(id) == Delete("SecurityIncident", id)
DeleteAssignment(id) == Delete("Assignment", id)
DeleteGrade(id) == Delete("Grade", id)

\* ------------------------------------------------------------ the database
\* The values submitted for the constrained columns.
Contacts == {[email |-> "a@x", phone |-> "555-0100"],
             [email |-> "b@x", phone |-> "555-0101"],
             [email |-> "a@x", phone |-> "555-0101"]}
Statuses == ReportStatusChoices \cup {"Closed"}
Scores == {Null,
           [int |-> <<9, 9>>, frac |-> <<5>>],
           [int |-> <<1, 2, 3>>, frac |-> <<4, 5, 6>>],
           [int |-> <<1, 2, 3, 4>>, frac |-> <<5>>]}

Init ==
    /\ db = [t \in TableNames |-> <<>>]
    /\ seq = [t \in TableNames |-> 0]
    /\ clock = 0
    /\ last = NoStatement
    /\ obj = Null
    /\ label = None

Next ==
    \/ InsertRole
    \/ \E id \in Ids : UpdateRole(id)
    \/ \E id \in Ids : DeleteRole(id)
    \/ \E r \in Ids, c \in Contacts : InsertUser(r, c.email, c.phone)
    \/ \E id \in UserIds, r \in Ids, c \in Contacts : UpdateUser(id, r, c.email, c.phone)
    \/ \E id \in UserIds : DeleteUser(id)
    \/ \E u \in UserIds : InsertEvent(u)
    \/ \E id \in Ids, u \in UserIds : UpdateEvent(id, u)
    \/ \E id \in Ids : DeleteEvent(id)
    \/ \E e \in Ids, u \in UserIds : InsertEventRegistration(e, u)
    \/ \E id, e \in Ids, u \in UserIds : UpdateEventRegistration(id, e, u)
    \/ \E id \in Ids : DeleteEventRegistration(id)
    \/ \E u \in UserIds : InsertResource(u)
    \/ \E id \in Ids, u \in UserIds : UpdateResource(id, u)
    \/ \E id \in Ids : DeleteResource(id)
    \/ \E u \in UserIds : InsertClass(u)
    \/ \E id \in Ids, u \in UserIds : UpdateClass(id, u)
    \/ \E id \in Ids : DeleteClass(id)
    \/ \E s, r \in UserIds : InsertMessage(s, r)
    \/ \E id \in Ids, s, r \in UserIds : UpdateMessage(id, s, r)
    \/ \E id \in Ids : DeleteMessage(id)
    \/ \E u \in UserIds, st \in Statuses : InsertSecurityIncident(u, st)
    \/ \E id \in Ids, u \in UserIds, st \in Statuses : UpdateSecurityIncident(id, u, st)
    \/ \E id \in Ids : DeleteSecurityIncident(id)
    \/ \E u \in UserIds, c \in Ids : InsertAssignment(u, c)
    \/ \E id, c \in Ids, u \in UserIds : UpdateAssignment(id, u, c)
    \/ \E id \in Ids : DeleteAssignment(id)
    \/ \E a \in Ids, u \in UserIds, sc \in Scores : InsertGrade(a, u, sc)
    \/ \E id, a \in Ids, u \in UserIds, sc \in Scores : UpdateGrade(id, a, u, sc)
    \/ \E id \in Ids : DeleteGrade(id)

Spec == Init /\ [][Next]_vars

\* ------------------------------------------------------------ __str__
\* A value formatted into an f-string.
Format(v) == IF v = None THEN "None" ELSE v

\* User.__str__
UserStr(u) ==
    Format(u.first_name) \o " " \o Format(u.last_name) \o "  " \o Format(u.email_address)
\* Event.__str__
EventStr(e) == Format(e.title) \o " " \o Format(e.event_description)

Names == {"Ann", "Bo", "Cy", "Di"}
Texts == {"Fair", "Open day", "x"}
UserInstances ==
    [model : {"User"}, first_name : Names, last_name : Names,
     email_address : {"a@x", "b@x", "c@x"}]
EventInstances ==
    [model : {"Event"}, title : Texts, event_description : Texts \cup {None}]

InitStr ==
    /\ db = [t \in TableNames |-> <<>>]
    /\ seq = [t \in TableNames |-> 0]
    /\ clock = 0
    /\ last = NoStatement
    /\ obj \in UserInstances \cup EventInstances
    /\ label = None

StrUser ==
    /\ obj.model = "User"
    /\ label = None
    /\ label' = UserStr(obj)
    /\ UNCHANGED <<db, seq, clock, last, obj>>

StrEvent ==
    /\ obj.model = "Event"
    /\ label = None
    /\ label' = EventStr(obj)
    /\ UNCHANGED <<db, seq, clock, last, obj>>

NextStr == StrUser \/ StrEvent

SpecStr == InitStr /\ [][NextStr]_vars

\* ------------------------------------------------------------ grading
\* The scores submitted: every numeral of at most MaxIntDigits digits before
\* the point and MaxFracDigits after it, over two digit symbols, and None.
DigitSeqs(lo, hi) == UNION {[1..k -> {0, 7}] : k \in lo..hi}
Numerals == [int : DigitSeqs(1, MaxIntDigits), frac : DigitSeqs(0, MaxFracDigits)]

\* The database after a Role, a User, a Class and an Assignment were inserted.
InitGrading ==
    /\ db = [t \in TableNames |->
               CASE t = "Role" -> <<[created_at |-> 1, updated_at |-> 2]>>
                 [] t = "User" -> <<[role_id |-> 1, email_address |-> "a@x",
                                     phone_number |-> "555-0100",
                                     created_at |-> 3, updated_at |-> 4]>>
                 [] t = "Class" -> <<[teacher_id |-> 1,
                                      created_at |-> 5, updated_at |-> 6]>>
                 [] t = "Assignment" -> <<[teacher_id |-> 1, class_id |-> 1,
                                           created_at |-> 7, updated_at |-> 8]>>
                 [] OTHER -> <<>>]
    /\ seq = [t \in TableNames |->
                IF t \in {"Role", "User", "Class", "Assignment"} THEN 1 ELSE 0]
    /\ clock = 8
    /\ last = [op |-> "insert", table |-> "Assignment", id |-> 1, old |-> Null,
               deleted |-> Null]
    /\ obj = Null
    /\ label = None

NextGrading ==
    \/ \E a \in Ids, u \in UserIds, sc \in Numerals \cup {Null} : InsertGrade(a, u, sc)
    \/ \E id, a \in Ids, u \in UserIds, sc \in Numerals \cup {Null} :
           UpdateGrade(id, a, u, sc)
    \/ \E id \in Ids : DeleteGrade(id)

SpecGrading == InitGrading /\ [][NextGrading]_vars

\* ------------------------------------------------------------ the schema
\* Every ForeignKey the module declares.
ForeignKeys ==
    {[child |-> "User", field |-> "role_id", parent |-> "Role"],
     [child |-> "Event", field |-> "organizer_id", parent |-> "User"],
     [child |-> "EventRegistration", field |-> "event_id", parent |-> "Event"],
     [child |-> "EventRegistration", field |-> "user_id", parent |-> "User"],
     [child |-> "Resource", field |-> "uploaded_by", parent |-> "User"],
     [child |-> "Class", field |-> "teacher_id", parent |-> "User"],
     [child |-> "Message", field |-> "sender_id", parent |-> "User"],
     [child |-> "Message", field |-> "receiver_id", parent |-> "User"],
     [child |-> "SecurityIncident", field |-> "reporter_id", parent |-> "User"],
     [child |-> "Assignment", field |-> "teacher_id", parent |-> "User"],
     [child |-> "Assignment", field |-> "class_id", parent |-> "Class"],
     [child |-> "Grade", field |-> "assignment_id", parent |-> "Assignment"],
     [child |-> "Grade", field |-> "student_id", parent |-> "User"]}

\* The rows of the database, as <<table, primary key>>.
Rows == UNION {{<<t, i>> : i \in DOMAIN db[t]} : t \in TableNames}
\* The rows that hold a reference to a row of S.
Referencing(S) ==
    {r \in Rows : \E fk \in ForeignKeys :
        /\ fk.child = r[1]
        /\ <<fk.parent, db[r[1]][r[2]][fk.field]>> \in S}
\* S and every row with a foreign-key path to a row of S.
RECURSIVE Dependents(_)
Dependents(S) == IF Referencing(S) \subseteq S THEN S
                 ELSE Dependents(S \cup Referencing(S))

\* ------------------------------------------------------------ properties

\* C1: in every reachable state every foreign-key field holds the primary
\* key of a row that exists in the parent table.
NoDanglingReference ==
    \A fk \in ForeignKeys : \A i \in DOMAIN db[fk.child] :
        db[fk.child][i][fk.field] \in DOMAIN db[fk.parent]
\* A User was deleted with its dependents while rows of another User remain.
ReferencesSurviveDelete ==
    /\ last.op = "delete"
    /\ last.table = "User"
    /\ last.deleted.Event # {}
    /\ User # <<>>
    /\ Referencing({<<"User", i>> : i \in DOMAIN User}) # {}

\* C2: a delete removes every row that references the deleted row directly
\* or through a chain of foreign keys.
CascadeReachesAllDependents ==
    [][last'.op = "delete" =>
          \A r \in Dependents({<<last'.table, last'.id>>}) :
              r[2] \notin DOMAIN db'[r[1]]]_vars
\* A Role was deleted and the cascade went down to a Grade.
RoleDeleteReachedGrade ==
    /\ last.op = "delete"
    /\ last.table = "Role"
    /\ last.deleted.User # {}
    /\ last.deleted.Class # {}
    /\ last.deleted.Assignment # {}
    /\ last.deleted.Grade # {}

\* C3: no two Users share an email_address or a phone_number, and an insert
\* of a User that repeats either value of an existing User is not accepted.
UserEmailAndPhoneUnique ==
    /\ \A u, v \in DOMAIN User :
           u # v => /\ User[u].email_address # User[v].email_address
                    /\ User[u].phone_number # User[v].phone_number
    /\ \A u \in DOMAIN User : \A r \in Ids, c \in Contacts :
           (c.email = User[u].email_address \/ c.phone = User[u].phone_number)
               => ~ENABLED InsertUser(r, c.email, c.phone)
\* A User is stored; a second one with an e-mail address and a phone number
\* of its own would be accepted, one that repeats its phone number is not.
DuplicatePhoneRefused ==
    \E u \in DOMAIN User :
        /\ User[u].email_address = "a@x"
        /\ User[u].phone_number = "555-0101"
        /\ ENABLED InsertUser(User[u].role_id, "b@x", "555-0100")
        /\ ~ENABLED InsertUser(User[u].role_id, "b@x", "555-0101")

CreatedAtSetOnce ==
    [][\A t \in TableNames : \A i \in DOMAIN db'[t] :
          IF i \in DOMAIN db[t]
          THEN db'[t][i].created_at = db[t][i].created_at
          ELSE clock < db'[t][i].created_at /\ db'[t][i].created_at <= clock']_vars
\* A row was updated after its insert.
RowUpdatedKeepsCreatedAt ==
    /\ last.op = "update"
    /\ last.table = "Assignment"
    /\ Assignment[last.id].created_at + 1 < Assignment[last.id].updated_at

\* C6: an update sets updated_at to the time of the update, which differs
\* from the value before it, and updated_at is never earlier than created_at.
UpdatedAtRefreshed ==
    [][/\ \A t \in TableNames : \A i \in DOMAIN db'[t] :
              db'[t][i].updated_at >= db'[t][i].created_at
       /\ last'.op = "update" =>
              /\ db'[last'.table][last'.id].updated_at
                     # db[last'.table][last'.id].updated_at
              /\ db'[last'.table][last'.id].updated_at = clock'
              /\ clock' > clock]_vars
\* A Message was updated.
MessageUpdated ==
    /\ last.op = "update"
    /\ last.table = "Message"
    /\ Message[last.id].updated_at = clock
    /\ Message[last.id].updated_at > Message[last.id].created_at

\* C7: an incident may be inserted with any of the three values, and an
\* update from any of them to any of them is accepted.
AnyStatusTransitionAccepted ==
    \A st \in {"Reported", "Under Investigation", "Resolved"} :
        /\ \A u \in DOMAIN User :
               (seq["SecurityIncident"] < MaxRows /\ CanRead(3))
                   => ENABLED InsertSecurityIncident(u, st)
        /\ \A i \in DOMAIN SecurityIncident :
               CanRead(1) => ENABLED UpdateSecurityIncident(
                                 i, SecurityIncident[i].reporter_id, st)
\* An incident that was Resolved was updated to Reported.
ResolvedReportedAgain ==
    /\ last.op = "update"
    /\ last.table = "SecurityIncident"
    /\ last.old.report_status = "Resolved"
    /\ SecurityIncident[last.id].report_status = "Reported"

\* C8: a score of more than 2 digits after the point or more than 3 before
\* it is not accepted and stores no row; every other score, and None, is.
RECURSIVE LeadingZeros(_)
LeadingZeros(ds) == IF ds # <<>> /\ Head(ds) = 0 THEN 1 + LeadingZeros(Tail(ds)) ELSE 0
IntegerDigits(n) == Len(n.int) - LeadingZeros(n.int)
LabelSingleSpaced ==
    label # None =>
        /\ obj.model = "User" =>
               label = obj.first_name \o " " \o obj.last_name \o " " \o obj.email_address
        /\ (obj.model = "Event" /\ obj.event_description # None) =>
               label = obj.title \o " " \o obj.event_description

\* C10: a delete leaves every row without a foreign-key path to the deleted
\* row in place, with the values it had.
DeleteLeavesTheRestAlone ==
    [][last'.op = "delete" =>
          \A r \in Rows \ Dependents({<<last'.table, last'.id>>}) :
              /\ r[2] \in DOMAIN db'[r[1]]
              /\ db'[r[1]][r[2]] = db[r[1]][r[2]]]_vars
\* A Grade was deleted; its Assignment, Class, student and Role are stored.
GradeDeletedParentsKept ==
    /\ last.op = "delete"
    /\ last.table = "Grade"
    /\ Assignment # <<>>
    /\ Class # <<>>
    /\ User # <<>>
    /\ Role # <<>>

=============================================================================
